---- MODULE Spec2Model ----
(***************************************************************************)
(* A model of pyexpr.py: the Expression node (construction, validation,    *)
(* rendering, calculate) and the ExpressionBuilder (bracket masking,       *)
(* operator search, splitting, recursive tree construction).               *)
(*                                                                         *)
(* A Python string is a sequence of one-character strings.  A number is a  *)
(* Python int (of any size) or a Python float (a binary64): "/" and every  *)
(* float operation round to the nearest binary64, ties to even, as the     *)
(* interpreter does.                                                       *)
(***************************************************************************)
EXTENDS Integers, Sequences, FiniteSets, TLC

VARIABLES pc, expr, args, built, result, again

vars == <<pc, expr, args, built, result, again>>

---------------------------------------------------------------------------
(* Bounds of the model.                                                    *)

\* Longest string of the character-level input family.
MaxLen == 4
\* Most operators in an input of the parenthesis-free family.
MaxOps == 2
\* Depth at which the interpreter gives up a recursion of _mask_brackets
\* (CPython: sys.getrecursionlimit(), 1000 by default).
RecursionLimit == 6

---------------------------------------------------------------------------
(* Strings.                                                                *)

Range(s) == {s[i] : i \in 1..Len(s)}

DigitChars == {"0", "1", "2", "3", "4", "5", "6", "7", "8", "9"}

DigitVal(c) ==
    CASE c = "0" -> 0 [] c = "1" -> 1 [] c = "2" -> 2 [] c = "3" -> 3
      [] c = "4" -> 4 [] c = "5" -> 5 [] c = "6" -> 6 [] c = "7" -> 7
      [] c = "8" -> 8 [] c = "9" -> 9

StartsWith(s, c) == Len(s) > 0 /\ s[1] = c

EndsWith(s, c) == Len(s) > 0 /\ s[Len(s)] = c

\* s[1:-1]
Strip1(s) == SubSeq(s, 2, Len(s) - 1)

---------------------------------------------------------------------------
(* Operator.                                                               *)

\* The members of the enum, in declaration order.
OperatorMembers == <<"^", "*", "/", "-", "+">>

\* A membership test that accepts every symbol.
has_value_any(val) == TRUE

has_value(val) == \E i \in 1..Len(OperatorMembers) : OperatorMembers[i] = val

\* ExpressionBuilder.operators: reversed(list(Operator)).
operators == [i \in 1..Len(OperatorMembers) |->
                 OperatorMembers[Len(OperatorMembers) + 1 - i]]

---------------------------------------------------------------------------
(* Expression: operands, validation, construction, rendering.              *)

\* An operand is a string, another Expression, or (for a caller that passes
\* anything else) None.
StrOperand(s) == [tag |-> "str", s |-> s]

ExprOperand(e) == [tag |-> "expr", e |-> e]

NoneOperand == [tag |-> "none"]

\* float(term) on a string over the model's alphabet (digits, operator
\* symbols, brackets, "$", "a", "B"): an optional sign, then one or more
\* digits.  Returns "ok" or the exception float() raises.
float(term) ==
    CASE term.tag = "str" ->
           LET s == term.s
               body == IF Len(s) > 0 /\ s[1] \in {"+", "-"}
                       THEN SubSeq(s, 2, Len(s)) ELSE s
           IN  IF Len(body) > 0 /\ Range(body) \subseteq DigitChars
               THEN "ok" ELSE "ValueError"
      [] OTHER -> "TypeError"

\* no_funny_stuff: TRUE when it returns, FALSE when it raises ValueError.
no_funny_stuff(left, right, operator) ==
    LET Accepted(term) ==
            float(term) \in {"ValueError", "TypeError"} => term.tag = "expr"
    IN  /\ Accepted(left)
        /\ Accepted(right)
        /\ has_value(operator)

\* str(operand)
StrOf(operand) ==
    CASE operand.tag = "str" -> operand.s
      [] operand.tag = "expr" -> operand.e.str
      [] OTHER -> <<"N", "o", "n", "e">>

\* A constructor that never wraps the rendering in parentheses.
ExpressionUnwrapped(left, right, operator, is_within_brackets) ==
    IF ~no_funny_stuff(left, right, operator)
    THEN [status |-> "ValueError"]
    ELSE [status |-> "ok",
          node |-> [left |-> left, right |-> right, operator |-> operator,
                    str |-> StrOf(left) \o <<operator>> \o StrOf(right)]]

\* Expression.__init__: the node, or the ValueError of no_funny_stuff.
Expression(left, right, operator, is_within_brackets) ==
    IF ~no_funny_stuff(left, right, operator)
    THEN [status |-> "ValueError"]
    ELSE LET repr == StrOf(left) \o <<operator>> \o StrOf(right)
         IN  [status |-> "ok",
              node |-> [left |-> left, right |-> right, operator |-> operator,
                        str |-> IF is_within_brackets
                                THEN <<"(">> \o repr \o <<")">> ELSE repr]]

---------------------------------------------------------------------------
(* ExpressionBuilder.                                                      *)

\* bracket_regex \([^\(\)]+\) matches s[i..j].
BracketMatch(s, i, j) ==
    /\ s[i] = "(" /\ s[j] = ")" /\ j >= i + 2
    /\ \A k \in (i + 1)..(j - 1) : s[k] \notin {"(", ")"}

\* re.sub(bracket_regex, _apply_mask, expr): every match becomes B's of the
\* same length (matches hold no bracket inside, so they never overlap).
MaskPass(s) ==
    [p \in 1..Len(s) |->
        IF \E i \in 1..p : \E j \in p..Len(s) : BracketMatch(s, i, j)
        THEN "B" ELSE s[p]]

\* _mask_brackets: repeats while a "(" remains.  depth counts the nested
\* calls; at RecursionLimit the interpreter raises RecursionError.
RECURSIVE MaskFrom(_, _)
MaskFrom(s, depth) ==
    LET new_expr_str == MaskPass(s)
    IN  IF "(" \in Range(new_expr_str)
        THEN IF depth >= RecursionLimit
             THEN [status |-> "RecursionError", str |-> new_expr_str, passes |-> depth]
             ELSE MaskFrom(new_expr_str, depth + 1)
        ELSE [status |-> "ok", str |-> new_expr_str, passes |-> depth]

_mask_brackets(s) == MaskFrom(s, 1)

\* operator_regex (?<!^)(?<!\/|\(|-)\% with % replaced by operator, matching
\* at position i of s.
OperatorMatch(s, operator, i) ==
    /\ s[i] = operator
    /\ i > 1
    /\ s[i - 1] \notin {"/", "(", "-"}

MatchPositions(s, operator) == {i \in 1..Len(s) : OperatorMatch(s, operator, i)}

\* count_operators: on the string as given (not masked).
count_operators(s) ==
    Cardinality({<<o, i>> \in Range(operators) \X (1..Len(s)) :
                    OperatorMatch(s, o, i)})

\* _get_lowest_priority_operator on the masked string: the first of
\* operators with a match, "None" when the loop falls through.
_get_lowest_priority_operator(masked) ==
    LET found == {k \in 1..Len(operators) :
                     MatchPositions(masked, operators[k]) # {}}
    IN  IF found = {} THEN "None"
        ELSE operators[CHOOSE k \in found : \A m \in found : k <= m]

\* parse_terms: the index of the rightmost match of operator in the masked
\* string (the code's i, plus one).
SplitIndex(masked, operator) ==
    CHOOSE i \in MatchPositions(masked, operator) :
        \A m \in MatchPositions(masked, operator) : m <= i

\* One record per call of _build_expression: the string it was given, its
\* caller's string, its nesting depth, and the operator and split index it
\* found ("None", 0 when it raised before splitting).
CallRecord(e, caller, depth, operator, index) ==
    [expr |-> e, caller |-> caller, depth |-> depth,
     operator |-> operator, index |-> index]

RECURSIVE _build_expression(_, _, _, _)
RECURSIVE BuildTerm(_, _, _)

\* The "if self.count_operators(term) > 0" blocks of _build_expression: the
\* term stays a string, or is built (without its outer brackets when it
\* starts with "(" and ends with ")").
BuildTerm(term, caller, depth) ==
    IF count_operators(term) > 0
    THEN LET sub == IF StartsWith(term, "(") /\ EndsWith(term, ")")
                    THEN _build_expression(Strip1(term), TRUE, caller, depth)
                    ELSE _build_expression(term, FALSE, caller, depth)
         IN  IF sub.status = "ok"
             THEN [status |-> "ok", operand |-> ExprOperand(sub.node),
                   calls |-> sub.calls]
             ELSE [status |-> sub.status, calls |-> sub.calls]
    ELSE [status |-> "ok", operand |-> StrOperand(term), calls |-> <<>>]

\* _build_expression: status is "ok" (with the node) or the exception that
\* leaves the call.
_build_expression(e, is_within_brackets, caller, depth) ==
    LET masked == _mask_brackets(e)
    IN  IF masked.status # "ok"
        THEN [status |-> "RecursionError",
              calls |-> <<CallRecord(e, caller, depth, "None", 0)>>]
        ELSE
        LET operator == _get_lowest_priority_operator(masked.str)
        IN  IF operator = "None"
            THEN [status |-> "TypeError",
                  calls |-> <<CallRecord(e, caller, depth, "None", 0)>>]
            ELSE
            LET i == SplitIndex(masked.str, operator)
                me == <<CallRecord(e, caller, depth, operator, i)>>
                left == BuildTerm(SubSeq(e, 1, i - 1), e, depth + 1)
            IN  IF left.status # "ok"
                THEN [status |-> left.status, calls |-> me \o left.calls]
                ELSE
                LET right == BuildTerm(SubSeq(e, i + 1, Len(e)), e, depth + 1)
                IN  IF right.status # "ok"
                    THEN [status |-> right.status,
                          calls |-> me \o left.calls \o right.calls]
                    ELSE
                    LET made == Expression(left.operand, right.operand,
                                           operator, is_within_brackets)
                        all == me \o left.calls \o right.calls
                    IN  IF made.status = "ok"
                        THEN [status |-> "ok", node |-> made.node, calls |-> all]
                        ELSE [status |-> made.status, calls |-> all]

\* build: a TypeError becomes a ValueError, anything else passes.
build(e) ==
    LET r == _build_expression(e, FALSE, <<>>, 1)
    IN  IF r.status = "TypeError"
        THEN [status |-> "ValueError", calls |-> r.calls]
        ELSE r

\* Expression.parse
parse(e) == build(e)

---------------------------------------------------------------------------
(* Natural numbers of any size (a Python int has no width, a binary64      *)
(* significand has 53 bits): limbs in base LimbBase, least significant     *)
(* first, no zero limb at the top; <<>> is 0.                              *)

LimbBits == 15

LimbBase == 32768

Max(a, b) == IF a < b THEN b ELSE a

Min(a, b) == IF a < b THEN a ELSE b

RECURSIVE BigNorm(_)
BigNorm(a) ==
    IF Len(a) > 0 /\ a[Len(a)] = 0
    THEN BigNorm(SubSeq(a, 1, Len(a) - 1)) ELSE a

RECURSIVE BigOf(_)
BigOf(n) == IF n = 0 THEN <<>> ELSE <<n % LimbBase>> \o BigOf(n \div LimbBase)

\* The int a small Big stands for.
RECURSIVE BigToNat(_)
BigToNat(a) == IF Len(a) = 0 THEN 0 ELSE a[1] + LimbBase * BigToNat(Tail(a))

Limb(a, i) == IF i <= Len(a) THEN a[i] ELSE 0

RECURSIVE BigAddFrom(_, _, _, _)
BigAddFrom(a, b, i, carry) ==
    IF i > Len(a) /\ i > Len(b)
    THEN IF carry = 0 THEN <<>> ELSE <<carry>>
    ELSE LET s == Limb(a, i) + Limb(b, i) + carry
         IN  <<s % LimbBase>> \o BigAddFrom(a, b, i + 1, s \div LimbBase)

BigAdd(a, b) == BigAddFrom(a, b, 1, 0)

RECURSIVE BigSubFrom(_, _, _, _)
BigSubFrom(a, b, i, borrow) ==
    IF i > Len(a) THEN <<>>
    ELSE LET s == a[i] - Limb(b, i) - borrow
         IN  IF s < 0 THEN <<s + LimbBase>> \o BigSubFrom(a, b, i + 1, 1)
             ELSE <<s>> \o BigSubFrom(a, b, i + 1, 0)

\* a - b for a >= b
BigSub(a, b) == BigNorm(BigSubFrom(a, b, 1, 0))

RECURSIVE BigCmpFrom(_, _, _)
BigCmpFrom(a, b, i) ==
    IF i = 0 THEN 0
    ELSE IF a[i] # b[i] THEN (IF a[i] < b[i] THEN -1 ELSE 1)
    ELSE BigCmpFrom(a, b, i - 1)

\* -1, 0 or 1 as a < b, a = b or a > b
BigCmp(a, b) ==
    IF Len(a) # Len(b) THEN (IF Len(a) < Len(b) THEN -1 ELSE 1)
    ELSE BigCmpFrom(a, b, Len(a))

RECURSIVE BigScaleFrom(_, _, _, _)
BigScaleFrom(a, k, i, carry) ==
    IF i > Len(a) THEN (IF carry = 0 THEN <<>> ELSE <<carry>>)
    ELSE LET p == a[i] * k + carry
         IN  <<p % LimbBase>> \o BigScaleFrom(a, k, i + 1, p \div LimbBase)

\* a * k for 0 <= k <= LimbBase
BigScale(a, k) == IF k = 0 THEN <<>> ELSE BigScaleFrom(a, k, 1, 0)

RECURSIVE BigMul(_, _)
BigMul(a, b) ==
    IF Len(a) = 0 \/ Len(b) = 0 THEN <<>>
    ELSE LET rest == BigMul(a, Tail(b))
         IN  BigAdd(BigScale(a, b[1]),
                    IF Len(rest) = 0 THEN <<>> ELSE <<0>> \o rest)

RECURSIVE BigPow(_, _)
BigPow(a, k) == IF k = 0 THEN <<1>> ELSE BigMul(a, BigPow(a, k - 1))

RECURSIVE Zeros(_)
Zeros(n) == IF n = 0 THEN <<>> ELSE <<0>> \o Zeros(n - 1)

\* a * 2^k
BigShl(a, k) ==
    IF Len(a) = 0 THEN <<>>
    ELSE Zeros(k \div LimbBits) \o BigScale(a, 2 ^ (k % LimbBits))

RECURSIVE BigShrFrom(_, _, _, _)
BigShrFrom(a, i, low, high) ==
    IF i > Len(a) THEN <<>>
    ELSE <<(a[i] \div low) + (Limb(a, i + 1) % low) * high>>
         \o BigShrFrom(a, i + 1, low, high)

\* a \div 2^k
BigShr(a, k) ==
    BigNorm(BigShrFrom(a, k \div LimbBits + 1, 2 ^ (k % LimbBits),
                       2 ^ (LimbBits - (k % LimbBits))))

\* Bit i of a, bit 0 the lowest.
BigBit(a, i) == (Limb(a, i \div LimbBits + 1) \div 2 ^ (i % LimbBits)) % 2

\* The k lowest bits of a are all 0.
BigLowZero(a, k) == \A i \in 0..(k - 1) : BigBit(a, i) = 0

RECURSIVE BitLength(_)
BitLength(n) == IF n = 0 THEN 0 ELSE 1 + BitLength(n \div 2)

BigBitLength(a) ==
    IF Len(a) = 0 THEN 0 ELSE LimbBits * (Len(a) - 1) + BitLength(a[Len(a)])

RECURSIVE TrailingZeros(_)
TrailingZeros(n) == IF n % 2 = 1 THEN 0 ELSE 1 + TrailingZeros(n \div 2)

\* The number of zero bits below the lowest set bit of a # 0.
RECURSIVE BigTrailingZeros(_)
BigTrailingZeros(a) ==
    IF a[1] = 0 THEN LimbBits + BigTrailingZeros(Tail(a))
    ELSE TrailingZeros(a[1])

\* Long division over the bits hi down to lo of a, one bit at a time, r
\* the remainder so far; the range is halved to keep the nesting shallow.
RECURSIVE BigDivRange(_, _, _, _, _)
BigDivRange(a, b, hi, lo, r) ==
    IF hi < lo THEN [quotient |-> <<>>, remainder |-> r]
    ELSE IF hi = lo
    THEN LET r2 == BigAdd(BigScale(r, 2),
                          IF BigBit(a, hi) = 1 THEN <<1>> ELSE <<>>)
         IN  IF BigCmp(r2, b) >= 0
             THEN [quotient |-> BigShl(<<1>>, hi), remainder |-> BigSub(r2, b)]
             ELSE [quotient |-> <<>>, remainder |-> r2]
    ELSE LET mid == (hi + lo) \div 2
             upper == BigDivRange(a, b, hi, mid + 1, r)
             lower == BigDivRange(a, b, mid, lo, upper.remainder)
         IN  [quotient |-> BigAdd(upper.quotient, lower.quotient),
              remainder |-> lower.remainder]

\* a \div b and a % b for b # 0
BigDivMod(a, b) == BigDivRange(a, b, BigBitLength(a) - 1, 0, <<>>)

---------------------------------------------------------------------------
(* Numbers.  A Python int or float is (-1)^neg * mant * 2^exp: an int has  *)
(* exp = 0 and no negative zero; a float is a binary64, its mant odd (or   *)
(* 0 with exp = 0, neg being the sign of the zero) and below 2^Precision.  *)
(* The exponent range of binary64 (overflow to inf, subnormals) is not     *)
(* modelled: no value of the model comes near it.                          *)

Precision == 53

IntNum(neg, mant) ==
    [kind |-> "num", isfloat |-> FALSE, neg |-> neg /\ Len(mant) > 0,
     mant |-> mant, exp |-> 0]

\* The float mant * 2^exp, which must need no rounding.
FloatNum(neg, mant, exp) ==
    IF Len(mant) = 0
    THEN [kind |-> "num", isfloat |-> TRUE, neg |-> neg, mant |-> <<>>,
          exp |-> 0]
    ELSE LET tz == BigTrailingZeros(mant)
         IN  [kind |-> "num", isfloat |-> TRUE, neg |-> neg,
              mant |-> BigShr(mant, tz), exp |-> exp + tz]

Error(name) == [kind |-> "error", error |-> name]

\* A float the model does not compute (a power that is not a binary64,
\* whose digits are the C library's): not zero, its sign known.
Inexact(neg) == [kind |-> "inexact", neg |-> neg]

\* An outcome the model does not determine: a sum of an Inexact and a
\* number of the other sign, and whatever is computed from it.
Unknown == [kind |-> "unknown"]

\* The binary64 nearest to mant * 2^exp (plus a fraction of the last bit
\* of mant when sticky), ties to the even significand.
Round(neg, mant, exp, sticky) ==
    LET drop == BigBitLength(mant) - Precision
    IN  IF drop <= 0 THEN FloatNum(neg, mant, exp)
        ELSE LET kept == BigShr(mant, drop)
                 half == BigBit(mant, drop - 1) = 1
                 rest == sticky \/ ~BigLowZero(mant, drop - 1)
                 up == half /\ (rest \/ BigBit(kept, 0) = 1)
             IN  FloatNum(neg, IF up THEN BigAdd(kept, <<1>>) ELSE kept,
                          exp + drop)

\* float(x)
ToFloat(x) == IF x.isfloat THEN x ELSE Round(x.neg, x.mant, 0, FALSE)

IsZero(x) == Len(x.mant) = 0

\* The signed sum of two magnitudes; an exact zero is +0 unless both
\* operands are negative.
SignedSum(xneg, xmant, yneg, ymant) ==
    IF xneg = yneg THEN [neg |-> xneg, mant |-> BigAdd(xmant, ymant)]
    ELSE LET c == BigCmp(xmant, ymant)
         IN  IF c = 0 THEN [neg |-> FALSE, mant |-> <<>>]
             ELSE IF c > 0 THEN [neg |-> xneg, mant |-> BigSub(xmant, ymant)]
             ELSE [neg |-> yneg, mant |-> BigSub(ymant, xmant)]

\* -x: the int 0 has no sign, the float 0.0 has.
Neg(x) ==
    IF x.isfloat THEN [x EXCEPT !.neg = ~x.neg] ELSE IntNum(~x.neg, x.mant)

FloatAdd(x, y) ==
    LET e == Min(x.exp, y.exp)
        s == SignedSum(x.neg, BigShl(x.mant, x.exp - e),
                       y.neg, BigShl(y.mant, y.exp - e))
    IN  Round(s.neg, s.mant, e, FALSE)

Add(x, y) ==
    IF ~x.isfloat /\ ~y.isfloat
    THEN LET s == SignedSum(x.neg, x.mant, y.neg, y.mant)
         IN  IntNum(s.neg, s.mant)
    ELSE FloatAdd(ToFloat(x), ToFloat(y))

Sub(x, y) ==
    IF ~x.isfloat /\ ~y.isfloat THEN Add(x, Neg(y))
    ELSE FloatAdd(ToFloat(x), Neg(ToFloat(y)))

Mul(x, y) ==
    IF ~x.isfloat /\ ~y.isfloat
    THEN IntNum(x.neg # y.neg, BigMul(x.mant, y.mant))
    ELSE LET a == ToFloat(x)
             b == ToFloat(y)
         IN  Round(a.neg # b.neg, BigMul(a.mant, b.mant), a.exp + b.exp,
                   FALSE)

\* The binary64 nearest to (a / b) * 2^exp for b # 0: the quotient is
\* carried to two bits more than the significand, the remainder is sticky.
Quotient(neg, a, b, exp) ==
    IF Len(a) = 0 THEN FloatNum(neg, <<>>, 0)
    ELSE LET shift == Max(0, Precision + 2 + BigBitLength(b)
                                - BigBitLength(a))
             dm == BigDivMod(BigShl(a, shift), b)
         IN  Round(neg, dm.quotient, exp - shift, Len(dm.remainder) > 0)

\* x / y for y # 0: always a float, the exact quotient rounded once.
Div(x, y) ==
    IF ~x.isfloat /\ ~y.isfloat
    THEN Quotient(x.neg # y.neg, x.mant, y.mant, 0)
    ELSE LET a == ToFloat(x)
             b == ToFloat(y)
         IN  Quotient(a.neg # b.neg, a.mant, b.mant, a.exp - b.exp)

\* A division that yields a default where Python raises.
TrueDivideSilent(x, y) ==
    IF IsZero(y) THEN FloatNum(FALSE, <<>>, 0) ELSE Div(x, y)

\* Python's x / y: ZeroDivisionError for a zero divisor.
TrueDivide(x, y) ==
    IF IsZero(y) THEN Error("ZeroDivisionError") ELSE Div(x, y)

\* y is a whole number.
IsIntegral(y) == ~y.isfloat \/ y.exp >= 0

\* x ** y for x >= 0 (not -0.0).  An int for an int base and an int
\* exponent >= 0.  Otherwise a float, which the C library's pow() computes:
\* the power itself when a binary64 holds it, else a neighbour of it that
\* IEEE 754 does not fix (glibc gives 147 ** -3 as 3.148096204560773e-07,
\* the nearest binary64 being 3.1480962045607726e-07): an Inexact.
Pow(x, y) ==
    IF ~IsIntegral(y)
    THEN IF IsZero(x)
         THEN IF y.neg THEN Error("ZeroDivisionError")
              ELSE FloatNum(FALSE, <<>>, 0)
         ELSE IF x.mant = <<1>> /\ x.exp = 0 THEN FloatNum(FALSE, <<1>>, 0)
         ELSE Inexact(FALSE)
    ELSE LET k == BigToNat(BigShl(y.mant, y.exp))
             a == ToFloat(x)
             power == BigPow(a.mant, k)
         IN  IF ~x.isfloat /\ ~y.isfloat /\ ~y.neg
             THEN IntNum(FALSE, BigPow(x.mant, k))
             ELSE IF y.neg /\ k > 0
             THEN IF IsZero(x) THEN Error("ZeroDivisionError")
                  ELSE IF power = <<1>>
                  THEN FloatNum(FALSE, <<1>>, -(a.exp * k))
                  ELSE Inexact(FALSE)
             ELSE IF BigBitLength(power) <= Precision
             THEN FloatNum(FALSE, power, a.exp * k)
             ELSE Inexact(FALSE)

---------------------------------------------------------------------------
(* Expression.calculate.                                                   *)

RECURSIVE DecimalValue(_)
DecimalValue(digits) ==
    IF Len(digits) = 0 THEN <<>>
    ELSE BigAdd(BigScale(DecimalValue(SubSeq(digits, 1, Len(digits) - 1)), 10),
                BigOf(DigitVal(digits[Len(digits)])))

\* The text of a number as eval() reads it inside left + operator + right:
\* a "-" sign or none, then the magnitude.  badliteral: a decimal literal
\* with a leading zero and a non-zero digit ("05"), which Python rejects.
LiteralText(s) ==
    LET signed == s[1] \in {"+", "-"}
        digits == IF signed THEN SubSeq(s, 2, Len(s)) ELSE s
    IN  [kind |-> "text", minus |-> s[1] = "-",
         mag |-> IntNum(FALSE, DecimalValue(digits)),
         badliteral |-> /\ Len(digits) > 1
                        /\ digits[1] = "0"
                        /\ Range(digits) # {"0"}]

\* str(number): repr gives a float the digits that read back as itself.
NumberText(v) ==
    IF v.kind = "unknown" THEN v
    ELSE [kind |-> "text", minus |-> v.neg,
          mag |-> IF v.kind = "inexact" THEN Inexact(FALSE)
                  ELSE [v EXCEPT !.neg = FALSE],
          badliteral |-> FALSE]

\* The value of a signed text standing where "-" is an ordinary prefix.
Signed(t) ==
    IF t.mag.kind = "inexact" THEN Inexact(t.minus)
    ELSE IF t.minus THEN Neg(t.mag) ELSE t.mag

\* An operation with an Inexact operand: what the sign rules settle.
InexactEval(left, operator, right) ==
    LET l == Signed(left)
        r == Signed(right)
        lzero == l.kind = "num" /\ IsZero(l)
        rzero == r.kind = "num" /\ IsZero(r)
    IN  CASE operator \in {"+", "-"} ->
                LET rneg == r.neg # (operator = "-")
                IN  IF lzero THEN Inexact(rneg)
                    ELSE IF rzero THEN Inexact(l.neg)
                    ELSE IF l.neg = rneg THEN Inexact(rneg)
                    ELSE Unknown
          [] operator = "*" ->
                IF lzero \/ rzero THEN FloatNum(l.neg # r.neg, <<>>, 0)
                ELSE Inexact(l.neg # r.neg)
          [] operator = "/" ->
                IF rzero THEN Error("ZeroDivisionError")
                ELSE IF lzero THEN FloatNum(l.neg # r.neg, <<>>, 0)
                ELSE Inexact(l.neg # r.neg)
          [] operator = "^" ->
                LET base == left.mag
                    p == IF base.kind = "num" /\ IsZero(base)
                         THEN IF r.neg THEN Error("ZeroDivisionError")
                              ELSE FloatNum(FALSE, <<>>, 0)
                         ELSE IF rzero
                              \/ (base.kind = "num" /\ base.mant = <<1>>
                                  /\ base.exp = 0)
                         THEN FloatNum(FALSE, <<1>>, 0)
                         ELSE Inexact(FALSE)
                IN  IF p.kind = "error" THEN p
                    ELSE IF p.kind = "inexact" THEN Inexact(left.minus)
                    ELSE IF left.minus THEN Neg(p) ELSE p

\* eval(left + operator.replace("^", "**") + right): Python's grammar binds
\* "**" tighter than a "-" prefix on its left, and looser than one on its
\* right; every other operator takes both signed operands.
PyEval(left, operator, right) ==
    IF left.kind = "unknown" \/ right.kind = "unknown" THEN Unknown
    ELSE IF left.badliteral \/ right.badliteral THEN Error("SyntaxError")
    ELSE IF left.mag.kind = "inexact" \/ right.mag.kind = "inexact"
    THEN InexactEval(left, operator, right)
    ELSE CASE operator = "+" -> Add(Signed(left), Signed(right))
           [] operator = "-" -> Sub(Signed(left), Signed(right))
           [] operator = "*" -> Mul(Signed(left), Signed(right))
           [] operator = "/" -> TrueDivide(Signed(left), Signed(right))
           [] operator = "^" ->
                LET p == Pow(left.mag, Signed(right))
                IN  IF p.kind = "error" THEN p
                    ELSE IF p.kind = "inexact" THEN Inexact(left.minus)
                    ELSE IF left.minus THEN Neg(p) ELSE p

RECURSIVE calculate(_)

\* resolve_operand: the operand's text, or the error calculate() raised.
resolve_operand(operand) ==
    IF operand.tag = "expr"
    THEN LET v == calculate(operand.e)
         IN  IF v.kind = "error" THEN v ELSE NumberText(v)
    ELSE LiteralText(operand.s)

calculate(node) ==
    LET left == resolve_operand(node.left)
    IN  IF left.kind = "error" THEN left
        ELSE LET right == resolve_operand(node.right)
             IN  IF right.kind = "error" THEN right
                 ELSE PyEval(left, node.operator, right)

---------------------------------------------------------------------------
(* Inputs.                                                                 *)

\* Signed integer literals.
Literals == {<<"0">>, <<"2">>, <<"3">>, <<"5">>, <<"-", "2">>, <<"-", "3">>}

\* literal operator literal
PairInputs ==
    {a \o <<o>> \o b : a \in Literals, b \in Literals,
                       o \in Range(OperatorMembers)}

FlatDigits == {"2", "3", "8"}

FlatOperators == {"+", "-", "*", "/"}

\* Parenthesis-free expressions with k operators over FlatDigits.
RECURSIVE Flat(_)
Flat(k) ==
    IF k = 0 THEN {<<d>> : d \in FlatDigits}
    ELSE {f \o <<o, d>> : f \in Flat(k - 1), o \in FlatOperators,
                          d \in FlatDigits}

FlatInputs == UNION {Flat(k) : k \in 1..MaxOps}

CharAlphabet == {"5", "3", "0", "+", "-", "(", ")", "$"}

\* Every string over CharAlphabet of length n.
RECURSIVE CharStrings(_)
CharStrings(n) ==
    IF n = 0 THEN {<<>>}
    ELSE {s \o <<c>> : s \in CharStrings(n - 1), c \in CharAlphabet}

CharInputs == UNION {CharStrings(n) : n \in 0..MaxLen}

\* Well-formed expressions with balanced parentheses: terms are digits and
\* groups, joined by one or two operators.
GroupDigits == {<<"2">>, <<"3">>}

Groups ==
    {<<"(">> \o a \o <<")">> : a \in GroupDigits}
    \cup {<<"(">> \o a \o <<"-">> \o b \o <<")">> :
              a \in GroupDigits, b \in GroupDigits}

Terms == GroupDigits \cup Groups

NestedGroups ==
    {<<"(">> \o a \o <<"-">> \o b \o <<")">> : a \in Groups, b \in Terms}
    \cup {<<"(">> \o a \o <<"-">> \o b \o <<")">> : a \in Terms, b \in Groups}

OuterOperators == {"+", "/", "*"}

BracketInputs ==
    {a \o <<o>> \o b : a \in Terms, b \in Terms, o \in OuterOperators}
    \cup {a \o <<o>> \o b \o <<q>> \o c :
              a \in Terms, b \in Terms, c \in Terms,
              o \in OuterOperators, q \in OuterOperators}
    \cup {a \o <<o>> \o b : a \in NestedGroups, b \in GroupDigits,
                            o \in OuterOperators}
    \cup {a \o <<o>> \o b : a \in GroupDigits, b \in NestedGroups,
                            o \in OuterOperators}

Inputs == PairInputs \cup FlatInputs \cup CharInputs \cup BracketInputs

\* Arguments of a direct construction Expression(left, right, operator).
NumberStrings == {<<"2">>, <<"-", "2">>, <<"0">>}

JunkStrings == {<<"a">>, <<>>, <<"2", "+">>}

LeafOperators == {"-", "/", "*"}

\* Expressions built earlier from number strings.
LeafNodes ==
    {Expression(StrOperand(a), StrOperand(b), o, FALSE).node :
         a \in NumberStrings, b \in NumberStrings, o \in LeafOperators}

Operands ==
    {StrOperand(s) : s \in NumberStrings \cup JunkStrings}
    \cup {NoneOperand}
    \cup {ExprOperand(e) : e \in LeafNodes}

OperatorArguments == Range(OperatorMembers) \cup {"%"}

---------------------------------------------------------------------------
(* The state machine: a caller parses a string or constructs a node        *)
(* directly, calculates it, and (for a parsed tree) parses its rendering   *)
(* again.                                                                  *)

None == [given |-> FALSE]

Init ==
    /\ pc = "idle"
    /\ expr = <<>>
    /\ args = None
    /\ built = None
    /\ result = None
    /\ again = None

\* Expression.parse(s)
Parse ==
    /\ pc = "idle"
    /\ \E s \in Inputs :
           /\ expr' = s
           /\ built' = parse(s)
    /\ pc' = "parsed"
    /\ UNCHANGED <<args, result, again>>

\* Expression(left, right, operator, is_within_brackets)
Construct ==
    /\ pc = "idle"
    /\ \E left \in Operands, right \in Operands,
          operator \in OperatorArguments, is_within_brackets \in BOOLEAN :
           /\ args' = [given |-> TRUE, left |-> left, right |-> right,
                       operator |-> operator,
                       is_within_brackets |-> is_within_brackets]
           /\ built' = Expression(left, right, operator, is_within_brackets)
    /\ pc' = "constructed"
    /\ UNCHANGED <<expr, result, again>>

\* node.calculate()
Calculate ==
    /\ pc \in {"parsed", "constructed"}
    /\ built.status = "ok"
    /\ result' = calculate(built.node)
    /\ pc' = "calculated"
    /\ UNCHANGED <<expr, args, built, again>>

\* Expression.parse(str(node)).calculate() for a parsed tree
Reparse ==
    /\ pc = "calculated"
    /\ ~args.given
    /\ LET text == built.node.str
           tree == parse(text)
       IN  again' = [given |-> TRUE, text |-> text, status |-> tree.status,
                     result |-> IF tree.status = "ok"
                                THEN calculate(tree.node) ELSE None]
    /\ pc' = "reparsed"
    /\ UNCHANGED <<expr, args, built, result>>

Next == Parse \/ Construct \/ Calculate \/ Reparse

Spec == Init /\ [][Next]_vars

---------------------------------------------------------------------------
(* What the claims compare the program with: the value of an expression    *)
(* in Python's own numbers (a quotient is the float Python's "/" gives).   *)

\* The number x stands for, whether int or float, a zero without its sign.
Value(x) ==
    LET f == FloatNum(x.neg, x.mant, x.exp)
    IN  [neg |-> f.neg /\ ~IsZero(f), mant |-> f.mant, exp |-> f.exp]

NumEq(x, y) == x.kind = "num" /\ y.kind = "num" /\ Value(x) = Value(y)

\* Both fail, or both give the same number.
SameOutcome(x, y) == (x.kind = "error" /\ y.kind = "error") \/ NumEq(x, y)

\* The integer a signed literal denotes.
LiteralValue(s) == Signed(LiteralText(s))

\* y is an odd whole number.
IsOdd(y) == IsIntegral(y) /\ y.exp = 0 /\ BigBit(y.mant, 0) = 1

\* operator applied to the numbers x and y (a whole exponent): a negative
\* base gives a negative power exactly for an odd exponent.
MathApply(operator, x, y) ==
    IF x.kind # "num" THEN x
    ELSE IF y.kind # "num" THEN y
    ELSE CASE operator = "+" -> Add(x, y)
           [] operator = "-" -> Sub(x, y)
           [] operator = "*" -> Mul(x, y)
           [] operator = "/" -> TrueDivide(x, y)
           [] operator = "^" ->
                LET p == Pow([x EXCEPT !.neg = FALSE], y)
                IN  IF p.kind = "num" /\ x.neg /\ IsOdd(y) THEN Neg(p)
                    ELSE p

Count(s, c) == Cardinality({i \in 1..Len(s) : s[i] = c})

\* Position i of s is outside every pair of parentheses.
TopLevel(s, i) ==
    Count(SubSeq(s, 1, i - 1), "(") = Count(SubSeq(s, 1, i - 1), ")")

\* The operator at position i has an operand on its left.
Binary(s, i) == i > 1 /\ s[i - 1] \in DigitChars \cup {")"}

SetMax(S) == CHOOSE i \in S : \A j \in S : j <= i

\* The value of a well-formed expression over + - * / and parentheses under
\* the standard order of operations: * and / before + and -, operators of
\* one level left to right, a parenthesized group as a unit.
RECURSIVE RefValue(_)
RefValue(s) ==
    LET additive == {i \in 1..Len(s) : /\ s[i] \in {"+", "-"}
                                       /\ TopLevel(s, i) /\ Binary(s, i)}
        multiplicative == {i \in 1..Len(s) : /\ s[i] \in {"*", "/"}
                                             /\ TopLevel(s, i)}
        At(i) == MathApply(s[i], RefValue(SubSeq(s, 1, i - 1)),
                           RefValue(SubSeq(s, i + 1, Len(s))))
    IN  IF additive # {} THEN At(SetMax(additive))
        ELSE IF multiplicative # {} THEN At(SetMax(multiplicative))
        ELSE IF StartsWith(s, "(") THEN RefValue(Strip1(s))
        ELSE LiteralValue(s)

Parsed == pc \in {"parsed", "calculated", "reparsed"} /\ ~args.given

Calculated == pc \in {"calculated", "reparsed"}

---------------------------------------------------------------------------
(* Claims.                                                                 *)

\* C1: for every operator o and every pair of signed literals a, b (b not
\* zero for "/"), parsing a o b succeeds and calculate() returns o applied
\* to the numbers a and b.
C1_PairEvaluates ==
    \A a \in Literals, b \in Literals, o \in Range(OperatorMembers) :
        (/\ Parsed
         /\ expr = a \o <<o>> \o b
         /\ ~(o = "/" /\ IsZero(LiteralValue(b))))
        => /\ built.status = "ok"
           /\ Calculated =>
                  SameOutcome(result,
                              MathApply(o, LiteralValue(a), LiteralValue(b)))

\* C2: a parenthesis-free expression over non-negative integers and + - * /
\* parses, and calculates to its value under the standard order of
\* operations.
C2_StandardOrder ==
    (Parsed /\ expr \in FlatInputs)
    => /\ built.status = "ok"
       /\ Calculated => SameOutcome(result, RefValue(expr))

\* C3: a well-formed expression with balanced parentheses parses, and every
\* parenthesized group is evaluated as a unit: the tree calculates to the
\* expression's value under the standard order of operations.
C3_ParenthesesOverride ==
    (Parsed /\ expr \in BracketInputs)
    => /\ built.status = "ok"
       /\ Calculated => SameOutcome(result, RefValue(expr))

\* A "+" or "-" at position i of s is a sign prefix: it follows an
\* operator, an opening bracket, or the start of the string.
SignPosition(s, i) ==
    i = 1 \/ s[i - 1] \in {"+", "-", "*", "/", "^", "("}

\* C4: parsing literal operator literal (where every sign prefix is a
\* literal's sign), no call of _build_expression splits at a "+" or "-" that
\* is a sign prefix; and "-2^-3" parses to the single node "-2" ^ "-3",
\* which calculates to -1/8.
C4_SignNeverSplit ==
    (Parsed /\ expr \in PairInputs) =>
        /\ \A k \in 1..Len(built.calls) :
               built.calls[k].operator \in {"+", "-"}
               => ~SignPosition(built.calls[k].expr, built.calls[k].index)
        /\ expr = <<"-", "2", "^", "-", "3">> =>
               /\ built.status = "ok"
               /\ built.node.left = StrOperand(<<"-", "2">>)
               /\ built.node.operator = "^"
               /\ built.node.right = StrOperand(<<"-", "3">>)
               /\ Calculated => NumEq(result, FloatNum(TRUE, <<1>>, -3))

OperatorChars == Range(OperatorMembers)

\* Malformed inputs: an operator with nothing after it, unbalanced
\* parentheses, or a stray character and no operator at all.
Malformed(s) ==
    \/ EndsWith(s, "+") \/ EndsWith(s, "-") \/ EndsWith(s, "*")
    \/ EndsWith(s, "/") \/ EndsWith(s, "^")
    \/ Count(s, "(") # Count(s, ")")
    \/ ("$" \in Range(s) /\ Range(s) \cap OperatorChars = {})

\* C5: parse of a malformed input fails with the parse error (ValueError),
\* never with a tree and never with another kind of failure.
C5_MalformedRejected ==
    (Parsed /\ Malformed(expr)) => built.status = "ValueError"

\* The operand is the number zero once resolved.
ResolvesToZero(operand) ==
    IF operand.tag = "expr"
    THEN LET v == calculate(operand.e) IN v.kind = "num" /\ IsZero(v)
    ELSE IsZero(LiteralValue(operand.s))

\* Some node of the tree divides by an operand that resolves to zero.
RECURSIVE DividesByZero(_)
DividesByZero(node) ==
    \/ node.operator = "/" /\ ResolvesToZero(node.right)
    \/ node.left.tag = "expr" /\ DividesByZero(node.left.e)
    \/ node.right.tag = "expr" /\ DividesByZero(node.right.e)

\* C6: calculate() on a tree in which some node divides by an operand that
\* resolves to zero (a literal 0, or a subtree that calculates to 0) ends in
\* an error at the root, never in a number.
C6_DivisionByZeroFails ==
    (Calculated /\ DividesByZero(built.node)) => result.kind = "error"

\* C6's case: the failing division is nested (the root is not the division)
\* and its divisor is a subtree; the root's calculate() ended in the error.
C6_Witness ==
    /\ Calculated
    /\ built.node.operator # "/"
    /\ built.node.right.tag = "expr"
    /\ built.node.right.e.operator = "/"
    /\ built.node.right.e.right.tag = "expr"
    /\ ResolvesToZero(built.node.right.e.right)
    /\ result = Error("ZeroDivisionError")

\* The operand is an Expression or a string that reads as a number.
Acceptable(operand) ==
    \/ operand.tag = "expr"
    \/ operand.tag = "str" /\ operand.s \in NumberStrings

\* C7: direct construction succeeds exactly when both operands are
\* number strings or Expressions and the operator is one of + - * / ^;
\* otherwise it raises ValueError and yields no node.
C7_ConstructionValidates ==
    pc = "constructed" =>
        /\ built.status \in {"ok", "ValueError"}
        /\ built.status = "ok" <=>
               /\ Acceptable(args.left)
               /\ Acceptable(args.right)
               /\ args.operator \in {"+", "-", "*", "/", "^"}
        /\ built.status = "ValueError" => DOMAIN built = {"status"}

\* C7's case: a construction from an Expression and a number string that
\* succeeded.
C7_Witness ==
    /\ pc = "constructed"
    /\ args.left.tag = "expr"
    /\ args.right.tag = "str"
    /\ built.status = "ok"
    /\ built.node.left = args.left

\* The number an operand resolves to: the literal's, or the subtree's result.
Resolved(operand) ==
    IF operand.tag = "expr" THEN calculate(operand.e)
    ELSE LiteralValue(operand.s)

\* C8: calculate() on a directly constructed node whose left operand is a
\* nested Expression returns its operator applied to the two resolved
\* numbers (the subtree's result and the right operand's number), negative
\* ones included.
C8_AppliesOperator ==
    (Calculated /\ args.given /\ built.node.left.tag = "expr") =>
        SameOutcome(result,
                    MathApply(built.node.operator, Resolved(built.node.left),
                              Resolved(built.node.right)))

\* C9: the rendering of a parsed tree parses again and calculates to the
\* same result; a constructed node renders as str(left) + operator +
\* str(right), in parentheses exactly when is_within_brackets was set.
C9_RoundTrip ==
    /\ pc = "reparsed" =>
           /\ again.status = "ok"
           /\ again.result = result
    /\ (pc = "constructed" /\ built.status = "ok") =>
           LET plain == StrOf(args.left) \o <<args.operator>>
                        \o StrOf(args.right)
           IN  built.node.str = IF args.is_within_brackets
                                THEN <<"(">> \o plain \o <<")">> ELSE plain

\* C9's case: a parsed tree with a parenthesized subtree was rendered,
\* parsed again and calculated to a number.
C9_Witness ==
    /\ pc = "reparsed"
    /\ built.node.left.tag = "expr"
    /\ StartsWith(built.node.left.e.str, "(")
    /\ again.status = "ok"
    /\ again.result.kind = "num"

\* C10: parse ends with a tree or with its parse error by its own logic:
\* in every call of _build_expression the recursion of _mask_brackets ends
\* (no "(" is left), and every recursive call receives a string strictly
\* shorter than its caller's.
C10_ParseTerminates ==
    Parsed =>
        /\ built.status \in {"ok", "ValueError"}
        /\ \A k \in 1..Len(built.calls) :
               /\ _mask_brackets(built.calls[k].expr).status = "ok"
               /\ built.calls[k].depth > 1 =>
                      Len(built.calls[k].expr) < Len(built.calls[k].caller)

====
